---- MODULE Spec2Model ----
(***************************************************************************)
(* Model of the notebook SpectralCubeReprojectExample.ipynb: the linear    *)
(* sequence of cells that converts two spectral cubes to velocity,         *)
(* cuts / smooths / interpolates cube 2 spectrally onto cube 1's axis,     *)
(* convolves it to a common beam, reprojects it onto cube 1's header and   *)
(* repeats the sequence with the dask backend.                             *)
(*                                                                         *)
(* Numbers.  Velocities are integers in km/s.  A cube read from FITS has   *)
(* its spectral axis in frequency; it is held as the offset from the rest  *)
(* frequency of the line in units of rest/c (one unit is the frequency     *)
(* shift of 1 km/s), so that the radio convention v = c (f0 - f) / f0 is   *)
(* v = -offset.  Widths that are not integers (fwhm_gaussian, the kernel   *)
(* stddev) are fixed-point numbers in thousandths, rounded down.           *)
(* Rest frequencies are in kHz.                                            *)
(*                                                                         *)
(* Cubes are records: the spectral WCS (cunit3, naxis3, crval3, cdelt3,    *)
(* restfrq), the spatial grid, the brightness unit, the beam, the set of   *)
(* blanked channels and hist, the sequence of library calls that produced  *)
(* the data (the data values are a deterministic function of the file and  *)
(* of hist).                                                               *)
(***************************************************************************)
EXTENDS Integers, Sequences, FiniteSets, TLC

(* ---------------------------- bounds ----------------------------------- *)
NChan1 == 3
HalfSpan2 == 12
MaxWidth == 3
MaxBeam == 2

(* ---------------------- constants of the notebook ---------------------- *)
RestValue1 == 139483699
RestValue2 == 217104984
FwhmToSigmaMilli == 2354

(* ------------------------------ helpers -------------------------------- *)
Abs(x) == IF x < 0 THEN -x ELSE x

MinOf(S) == CHOOSE x \in S : \A y \in S : x <= y

MaxOf(S) == CHOOSE x \in S : \A y \in S : x >= y

Range(s) == {s[i] : i \in 1..Len(s)}

RECURSIVE ISqrtIn(_, _, _)
ISqrtIn(n, lo, hi) ==
    IF lo >= hi THEN lo
    ELSE LET mid == (lo + hi + 1) \div 2
         IN IF mid * mid <= n THEN ISqrtIn(n, mid, hi) ELSE ISqrtIn(n, lo, mid - 1)

\* x ** 0.5 on a non-negative fixed-point argument, rounded down
ISqrt(n) == ISqrtIn(n, 0, 46340)

NoCube == [cunit3 |-> "none", naxis3 |-> 0, crval3 |-> 0, cdelt3 |-> 0,
           restfrq |-> 0, spatial |-> [n |-> 0, scale |-> 0], bunit |-> "none",
           beam |-> <<0, 0>>, varying |-> FALSE, blank |-> {}, hist |-> <<>>,
           dask |-> FALSE]

NoHeader == [NAXIS3 |-> 0, CRVAL3 |-> 0, CDELT3 |-> 0, CUNIT3 |-> "none",
             RESTFRQ |-> 0, SPATIAL |-> [n |-> 0, scale |-> 0],
             BUNIT |-> "none", BEAM |-> <<0, 0>>]

NaN == [nan |-> TRUE, milli |-> 0]

Num(m) == [nan |-> FALSE, milli |-> m]

(* ----------------------- the library's operations ---------------------- *)
\* cube.spectral_axis: the world coordinate of every channel
SpectralAxis(c) == [i \in 1..c.naxis3 |-> c.crval3 + (i - 1) * c.cdelt3]

AxisMin(c) == MinOf(Range(SpectralAxis(c)))

AxisMax(c) == MaxOf(Range(SpectralAxis(c)))

\* SpectralCube.read(filename, use_dask=...)
ReadCube(fits, useDask) == [fits EXCEPT !.dask = useDask]

\* cube.with_spectral_unit(u.km / u.s, velocity_convention="radio", rest_value=rest)
WithSpectralUnit(c, rest) ==
    [c EXCEPT !.cunit3 = "km/s", !.crval3 = -c.crval3, !.cdelt3 = -c.cdelt3,
              !.restfrq = rest,
              !.hist = Append(c.hist, [op |-> "with_spectral_unit", arg |-> <<rest>>])]

\* np.diff(cube.spectral_axis)[0]
FirstDiff(c) == SpectralAxis(c)[2] - SpectralAxis(c)[1]

\* cube.closest_spectral_channel(value): argmin of |axis - value|, first on ties
ClosestSpectralChannel(c, value) ==
    LET ax == SpectralAxis(c)
    IN CHOOSE i \in 1..c.naxis3 :
          /\ \A j \in 1..c.naxis3 : Abs(ax[i] - value) <= Abs(ax[j] - value)
          /\ \A j \in 1..(i - 1) : Abs(ax[j] - value) > Abs(ax[i] - value)

\* cube.spectral_slab(lo, hi): the channels from the one closest to lo to the
\* one closest to hi, both included
SpectralSlab(c, lo, hi) ==
    LET a == ClosestSpectralChannel(c, lo)
        b == ClosestSpectralChannel(c, hi)
        ilo == IF a > b THEN b ELSE a
        ihi == IF a > b THEN a ELSE b
    IN [c EXCEPT !.crval3 = c.crval3 + (ilo - 1) * c.cdelt3,
                 !.naxis3 = ihi - ilo + 1,
                 !.hist = Append(c.hist, [op |-> "spectral_slab", arg |-> <<lo, hi>>])]

\* cube.spectral_smooth(kernel)
SpectralSmooth(c, kernel) ==
    [c EXCEPT !.hist = Append(c.hist, [op |-> "spectral_smooth", arg |-> <<kernel.milli>>])]

\* cube.spectral_interpolate(axis): the cube on the given spectral grid; a
\* target channel outside the range of the input axis is blanked
SpectralInterpolate(c, axis) ==
    [c EXCEPT !.crval3 = axis[1], !.cdelt3 = axis[2] - axis[1], !.naxis3 = Len(axis),
              !.blank = {i \in 1..Len(axis) : axis[i] < AxisMin(c) \/ axis[i] > AxisMax(c)},
              !.hist = Append(c.hist, [op |-> "spectral_interpolate", arg |-> axis])]

\* b1 is at least as large as b2 in every direction
BeamGeq(b1, b2) == b1[1] >= b2[1] /\ b1[2] >= b2[2]

MaxI(a, b) == IF a >= b THEN a ELSE b

\* radio_beam.commonbeam.common_2beams(Beams([b1, b2]))
Common2Beams(b1, b2) == <<MaxI(b1[1], b2[1]), MaxI(b1[2], b2[2])>>

\* cube.convolve_to(beam)
ConvolveTo(c, beam) ==
    [c EXCEPT !.beam = beam,
              !.hist = Append(c.hist, [op |-> "convolve_to", arg |-> beam])]

\* cube.header
Header(c) == [NAXIS3 |-> c.naxis3, CRVAL3 |-> c.crval3, CDELT3 |-> c.cdelt3,
              CUNIT3 |-> c.cunit3, RESTFRQ |-> c.restfrq, SPATIAL |-> c.spatial,
              BUNIT |-> c.bunit, BEAM |-> c.beam]

\* cube.reproject(header): the cube on the header's grid; unit, beam and mask
\* stay those of the cube
Reproject(c, h) ==
    [c EXCEPT !.naxis3 = h.NAXIS3, !.crval3 = h.CRVAL3, !.cdelt3 = h.CDELT3,
              !.cunit3 = h.CUNIT3, !.restfrq = h.RESTFRQ, !.spatial = h.SPATIAL,
              !.hist = Append(c.hist, [op |-> "reproject",
                          arg |-> <<h.NAXIS3, h.CRVAL3, h.CDELT3, h.RESTFRQ,
                                    h.SPATIAL.n, h.SPATIAL.scale>>])]

(* ------------------- the notebook's own parameters --------------------- *)
\* cell 29: lower bound of the buffered slab
SlabLo(c1vel, res2) == AxisMin(c1vel) - res2

\* cell 29: upper bound of the buffered slab
SlabHi(c1vel) == AxisMax(c1vel)

\* a linear difference of the widths instead of the difference in quadrature
FwhmGaussianLinear(v1, v2) ==
    IF v1 * v1 - v2 * v2 < 0 THEN NaN
    ELSE Num((Abs(v1) - Abs(v2)) * 1000)

\* cell 31: fwhm_gaussian = (velocity_res_1**2 - velocity_res_2**2) ** 0.5,
\* in thousandths of km/s; the square root of a negative number is nan
FwhmGaussian(v1, v2) ==
    IF v1 * v1 - v2 * v2 < 0 THEN NaN
    ELSE Num(ISqrt((v1 * v1 - v2 * v2) * 1000000))

\* cell 32: stddev = fwhm_gaussian.to(u.km / u.s).value / fwhm_to_sigma,
\* in thousandths
KernelStddev(fwhm) ==
    IF fwhm.nan THEN NaN ELSE Num((fwhm.milli * 1000) \div FwhmToSigmaMilli)

\* only cube 1's beam is handed over
CommonBeamOfCube1(c1vel, c2vel) == Common2Beams(c1vel.beam, c1vel.beam)

\* only cube 2's beam is handed over
CommonBeamOfCube2(c1vel, c2vel) == Common2Beams(c2vel.beam, c2vel.beam)

\* cell 43: the two beams handed to common_2beams
CommonBeamOf(c1vel, c2vel) == Common2Beams(c1vel.beam, c2vel.beam)

\* the property hands out the cube's own header object
HeaderPropertyAlias(c) == [obj |-> Header(c), alias |-> TRUE]

\* cell 47: tgthdr = cube1vel.header, a new header object built from the cube
\* (alias tells whether the object is the cube's own)
HeaderProperty(c) == [obj |-> Header(c), alias |-> FALSE]

\* the cube whose header object is h
WithHeader(c, h) ==
    [c EXCEPT !.naxis3 = h.NAXIS3, !.crval3 = h.CRVAL3, !.cdelt3 = h.CDELT3,
              !.cunit3 = h.CUNIT3, !.restfrq = h.RESTFRQ, !.spatial = h.SPATIAL,
              !.bunit = h.BUNIT, !.beam = h.BEAM]

\* the unsmoothed cutout is interpolated
InterpInputCutout(cutout, smooth) == cutout

\* cell 36: the cube that is interpolated onto cube1vel's axis
InterpInput(cutout, smooth) == smooth

\* the header of cube 2 is taken as the target
TargetCubeIsCube2(c1vel, c2vel) == c2vel

\* cell 47: the cube whose header is the target of the reprojection
TargetCube(c1vel, c2vel) == c1vel

\* cell 47: the cube that is reprojected
ReprojInput(resample, spatialsmooth) == spatialsmooth

\* the dask pipeline with the slab of cell 27, without the buffer
DaskPipelineNoBuffer(fits2, c1vel, res2, kernel, cbeam, hdr) ==
    LET cube2dask == ReadCube(fits2, TRUE)
        cube2daskvel == WithSpectralUnit(cube2dask, RestValue2)
        cube2daskvel_cutout ==
            SpectralSlab(cube2daskvel, AxisMin(c1vel), AxisMax(c1vel))
        cube2daskvel_smooth == SpectralSmooth(cube2daskvel_cutout, kernel)
        cube2daskvel_spectralresample ==
            SpectralInterpolate(cube2daskvel_smooth, SpectralAxis(c1vel))
        cube2daskvel_spatialspectralsmooth ==
            ConvolveTo(cube2daskvel_spectralresample, cbeam)
    IN Reproject(cube2daskvel_spatialspectralsmooth, hdr)

\* cell 55: the dask pipeline on cube 2, from the file to cube2daskvel_reproj
DaskPipeline(fits2, c1vel, res2, kernel, cbeam, hdr) ==
    LET cube2dask == ReadCube(fits2, TRUE)
        cube2daskvel == WithSpectralUnit(cube2dask, RestValue2)
        cube2daskvel_cutout ==
            SpectralSlab(cube2daskvel, AxisMin(c1vel) - res2, AxisMax(c1vel))
        cube2daskvel_smooth == SpectralSmooth(cube2daskvel_cutout, kernel)
        cube2daskvel_spectralresample ==
            SpectralInterpolate(cube2daskvel_smooth, SpectralAxis(c1vel))
        cube2daskvel_spatialspectralsmooth ==
            ConvolveTo(cube2daskvel_spectralresample, cbeam)
    IN Reproject(cube2daskvel_spatialspectralsmooth, hdr)

\* the order of the code cells
Cells == <<"cell17", "cell18", "cell25", "cell27", "cell29", "cell31", "cell32",
           "cell34", "cell36", "cell43", "cell45", "cell47", "cell55", "done">>

CellIndex(p) == CHOOSE i \in 1..Len(Cells) : Cells[i] = p

NextPc(p) == Cells[CellIndex(p) + 1]

(* ------------------------------- state --------------------------------- *)
VARIABLES pc, cube1, cube2, cube1vel, cube2vel, velocity_res_1, velocity_res_2,
          cube2vel_cutout, fwhm_gaussian, spectral_smoothing_kernel,
          cube2vel_smooth, cube2vel_spectralresample, common_beam,
          cube2vel_spatialspectralsmooth, tgthdr, cube2vel_reproj,
          cube2daskvel_reproj

vars == <<pc, cube1, cube2, cube1vel, cube2vel, velocity_res_1, velocity_res_2,
          cube2vel_cutout, fwhm_gaussian, spectral_smoothing_kernel,
          cube2vel_smooth, cube2vel_spectralresample, common_beam,
          cube2vel_spatialspectralsmooth, tgthdr, cube2vel_reproj,
          cube2daskvel_reproj>>

Widths == {w \in (-MaxWidth)..MaxWidth : w # 0}

Units == {"Jy/beam", "K"}

Beams1 == {<<MaxBeam, MaxBeam>>, <<MaxBeam, 1>>}

Beams2 == {<<1, 1>>, <<1, MaxBeam>>, <<MaxBeam, MaxBeam>>}

Spatial1 == {[n |-> 2, scale |-> 2], [n |-> 3, scale |-> 1]}

Spatial2 == {[n |-> 3, scale |-> 1]}

\* the contents of the first FITS file: NChan1 channels
Fits1(start, width, beam, bunit, spatial) ==
    [cunit3 |-> "Hz", naxis3 |-> NChan1, crval3 |-> start, cdelt3 |-> width,
     restfrq |-> RestValue1, spatial |-> spatial, bunit |-> bunit, beam |-> beam,
     varying |-> FALSE, blank |-> {},
     hist |-> <<[op |-> "read", arg |-> <<1>>]>>, dask |-> FALSE]

\* the contents of the second FITS file: channels spanning about
\* -HalfSpan2 .. HalfSpan2 around the line
Fits2(phase, width, beam, varying, bunit, spatial) ==
    [cunit3 |-> "Hz", naxis3 |-> ((2 * HalfSpan2) \div Abs(width)) + 1,
     crval3 |-> (IF width > 0 THEN 1 ELSE -1) * (phase - HalfSpan2),
     cdelt3 |-> width,
     restfrq |-> RestValue2, spatial |-> spatial, bunit |-> bunit, beam |-> beam,
     varying |-> varying, blank |-> {},
     hist |-> <<[op |-> "read", arg |-> <<2>>]>>, dask |-> FALSE]

\* cells 9 and 10 have run: both files are read
Init ==
    /\ pc = "cell17"
    /\ \E start \in 0..1, width \in Widths, beam \in Beams1, bunit \in Units,
          spatial \in Spatial1 :
          cube1 = ReadCube(Fits1(start, width, beam, bunit, spatial), FALSE)
    /\ \E phase \in 0..1, width \in Widths, beam \in Beams2, varying \in BOOLEAN,
          bunit \in Units, spatial \in Spatial2 :
          cube2 = ReadCube(Fits2(phase, width, beam, varying, bunit, spatial), FALSE)
    /\ cube1vel = NoCube
    /\ cube2vel = NoCube
    /\ velocity_res_1 = 0
    /\ velocity_res_2 = 0
    /\ cube2vel_cutout = NoCube
    /\ fwhm_gaussian = NaN
    /\ spectral_smoothing_kernel = NaN
    /\ cube2vel_smooth = NoCube
    /\ cube2vel_spectralresample = NoCube
    /\ common_beam = <<0, 0>>
    /\ cube2vel_spatialspectralsmooth = NoCube
    /\ tgthdr = NoHeader
    /\ cube2vel_reproj = NoCube
    /\ cube2daskvel_reproj = NoCube

(* ------------------------------ the cells ------------------------------ *)
\* cell 17: cube1vel = cube1.with_spectral_unit(...)
Cell17 ==
    /\ pc = "cell17"
    /\ cube1vel' = WithSpectralUnit(cube1, RestValue1)
    /\ pc' = NextPc(pc)
    /\ UNCHANGED <<cube1, cube2, cube2vel, velocity_res_1, velocity_res_2,
                   cube2vel_cutout, fwhm_gaussian, spectral_smoothing_kernel,
                   cube2vel_smooth, cube2vel_spectralresample, common_beam,
                   cube2vel_spatialspectralsmooth, tgthdr, cube2vel_reproj,
                   cube2daskvel_reproj>>

\* cell 18: cube2vel = cube2.with_spectral_unit(...)
Cell18 ==
    /\ pc = "cell18"
    /\ cube2vel' = WithSpectralUnit(cube2, RestValue2)
    /\ pc' = NextPc(pc)
    /\ UNCHANGED <<cube1, cube2, cube1vel, velocity_res_1, velocity_res_2,
                   cube2vel_cutout, fwhm_gaussian, spectral_smoothing_kernel,
                   cube2vel_smooth, cube2vel_spectralresample, common_beam,
                   cube2vel_spatialspectralsmooth, tgthdr, cube2vel_reproj,
                   cube2daskvel_reproj>>

\* cell 25: the channel widths
Cell25 ==
    /\ pc = "cell25"
    /\ velocity_res_1' = FirstDiff(cube1vel)
    /\ velocity_res_2' = FirstDiff(cube2vel)
    /\ pc' = NextPc(pc)
    /\ UNCHANGED <<cube1, cube2, cube1vel, cube2vel,
                   cube2vel_cutout, fwhm_gaussian, spectral_smoothing_kernel,
                   cube2vel_smooth, cube2vel_spectralresample, common_beam,
                   cube2vel_spatialspectralsmooth, tgthdr, cube2vel_reproj,
                   cube2daskvel_reproj>>

\* cell 27: the slab without buffer
Cell27 ==
    /\ pc = "cell27"
    /\ cube2vel_cutout' = SpectralSlab(cube2vel, AxisMin(cube1vel), AxisMax(cube1vel))
    /\ pc' = NextPc(pc)
    /\ UNCHANGED <<cube1, cube2, cube1vel, cube2vel, velocity_res_1, velocity_res_2,
                   fwhm_gaussian, spectral_smoothing_kernel,
                   cube2vel_smooth, cube2vel_spectralresample, common_beam,
                   cube2vel_spatialspectralsmooth, tgthdr, cube2vel_reproj,
                   cube2daskvel_reproj>>

\* cell 29: the slab with the buffer
Cell29 ==
    /\ pc = "cell29"
    /\ cube2vel_cutout' = SpectralSlab(cube2vel, SlabLo(cube1vel, velocity_res_2),
                                       SlabHi(cube1vel))
    /\ pc' = NextPc(pc)
    /\ UNCHANGED <<cube1, cube2, cube1vel, cube2vel, velocity_res_1, velocity_res_2,
                   fwhm_gaussian, spectral_smoothing_kernel,
                   cube2vel_smooth, cube2vel_spectralresample, common_beam,
                   cube2vel_spatialspectralsmooth, tgthdr, cube2vel_reproj,
                   cube2daskvel_reproj>>

\* cell 31: the width of the smoothing Gaussian
Cell31 ==
    /\ pc = "cell31"
    /\ fwhm_gaussian' = FwhmGaussian(velocity_res_1, velocity_res_2)
    /\ pc' = NextPc(pc)
    /\ UNCHANGED <<cube1, cube2, cube1vel, cube2vel, velocity_res_1, velocity_res_2,
                   cube2vel_cutout, spectral_smoothing_kernel,
                   cube2vel_smooth, cube2vel_spectralresample, common_beam,
                   cube2vel_spatialspectralsmooth, tgthdr, cube2vel_reproj,
                   cube2daskvel_reproj>>

\* cell 32: Gaussian1DKernel(stddev=...); the kernel size cannot be computed
\* from a nan stddev, which raises ValueError
Cell32 ==
    /\ pc = "cell32"
    /\ spectral_smoothing_kernel' = KernelStddev(fwhm_gaussian)
    /\ pc' = IF fwhm_gaussian.nan THEN "error" ELSE NextPc(pc)
    /\ UNCHANGED <<cube1, cube2, cube1vel, cube2vel, velocity_res_1, velocity_res_2,
                   cube2vel_cutout, fwhm_gaussian,
                   cube2vel_smooth, cube2vel_spectralresample, common_beam,
                   cube2vel_spatialspectralsmooth, tgthdr, cube2vel_reproj,
                   cube2daskvel_reproj>>

\* cell 34: spectral smoothing; a cube with one beam per channel refuses it
\* (AttributeError)
Cell34 ==
    /\ pc = "cell34"
    /\ IF cube2vel_cutout.varying
       THEN /\ pc' = "error"
            /\ UNCHANGED cube2vel_smooth
       ELSE /\ cube2vel_smooth' = SpectralSmooth(cube2vel_cutout, spectral_smoothing_kernel)
            /\ pc' = NextPc(pc)
    /\ UNCHANGED <<cube1, cube2, cube1vel, cube2vel, velocity_res_1, velocity_res_2,
                   cube2vel_cutout, fwhm_gaussian, spectral_smoothing_kernel,
                   cube2vel_spectralresample, common_beam,
                   cube2vel_spatialspectralsmooth, tgthdr, cube2vel_reproj,
                   cube2daskvel_reproj>>

\* cell 36: interpolation onto cube1vel's spectral axis
Cell36 ==
    /\ pc = "cell36"
    /\ cube2vel_spectralresample' =
           SpectralInterpolate(InterpInput(cube2vel_cutout, cube2vel_smooth),
                               SpectralAxis(cube1vel))
    /\ pc' = NextPc(pc)
    /\ UNCHANGED <<cube1, cube2, cube1vel, cube2vel, velocity_res_1, velocity_res_2,
                   cube2vel_cutout, fwhm_gaussian, spectral_smoothing_kernel,
                   cube2vel_smooth, common_beam,
                   cube2vel_spatialspectralsmooth, tgthdr, cube2vel_reproj,
                   cube2daskvel_reproj>>

\* cell 43: the common beam
Cell43 ==
    /\ pc = "cell43"
    /\ common_beam' = CommonBeamOf(cube1vel, cube2vel)
    /\ pc' = NextPc(pc)
    /\ UNCHANGED <<cube1, cube2, cube1vel, cube2vel, velocity_res_1, velocity_res_2,
                   cube2vel_cutout, fwhm_gaussian, spectral_smoothing_kernel,
                   cube2vel_smooth, cube2vel_spectralresample,
                   cube2vel_spatialspectralsmooth, tgthdr, cube2vel_reproj,
                   cube2daskvel_reproj>>

\* cell 45: convolution of cube 2 to the common beam
Cell45 ==
    /\ pc = "cell45"
    /\ cube2vel_spatialspectralsmooth' = ConvolveTo(cube2vel_spectralresample, common_beam)
    /\ pc' = NextPc(pc)
    /\ UNCHANGED <<cube1, cube2, cube1vel, cube2vel, velocity_res_1, velocity_res_2,
                   cube2vel_cutout, fwhm_gaussian, spectral_smoothing_kernel,
                   cube2vel_smooth, cube2vel_spectralresample, common_beam,
                   tgthdr, cube2vel_reproj, cube2daskvel_reproj>>

\* cell 47: the target header and the reprojection.  The assignment to
\* tgthdr["RESTFRQ"] writes into the object cube1vel.header returned.
Cell47 ==
    /\ pc = "cell47"
    /\ LET ref == HeaderProperty(TargetCube(cube1vel, cube2vel))
           src == ReprojInput(cube2vel_spectralresample, cube2vel_spatialspectralsmooth)
           hdr == [ref.obj EXCEPT !.RESTFRQ = Header(src).RESTFRQ]
       IN /\ tgthdr' = hdr
          /\ cube1vel' = IF ref.alias THEN WithHeader(cube1vel, hdr) ELSE cube1vel
          /\ cube2vel_reproj' = Reproject(src, hdr)
    /\ pc' = NextPc(pc)
    /\ UNCHANGED <<cube1, cube2, cube2vel, velocity_res_1, velocity_res_2,
                   cube2vel_cutout, fwhm_gaussian, spectral_smoothing_kernel,
                   cube2vel_smooth, cube2vel_spectralresample, common_beam,
                   cube2vel_spatialspectralsmooth, cube2daskvel_reproj>>

\* cell 55: the same sequence with dask
Cell55 ==
    /\ pc = "cell55"
    /\ cube2daskvel_reproj' =
           DaskPipeline(cube2, cube1vel, velocity_res_2, spectral_smoothing_kernel,
                        common_beam, tgthdr)
    /\ pc' = NextPc(pc)
    /\ UNCHANGED <<cube1, cube2, cube1vel, cube2vel, velocity_res_1, velocity_res_2,
                   cube2vel_cutout, fwhm_gaussian, spectral_smoothing_kernel,
                   cube2vel_smooth, cube2vel_spectralresample, common_beam,
                   cube2vel_spatialspectralsmooth, tgthdr, cube2vel_reproj>>

Next ==
    \/ Cell17
    \/ Cell18
    \/ Cell25
    \/ Cell27
    \/ Cell29
    \/ Cell31
    \/ Cell32
    \/ Cell34
    \/ Cell36
    \/ Cell43
    \/ Cell45
    \/ Cell47
    \/ Cell55

Spec == Init /\ [][Next]_vars

(* ------------------------------ properties ----------------------------- *)
\* the cell has run and no later cell has raised
Ran(cell) == pc # "error" /\ CellIndex(pc) > CellIndex(cell)

OpNames(c) == [i \in 1..Len(c.hist) |-> c.hist[i].op]

IsPrefix(s, t) == Len(s) <= Len(t) /\ \A i \in 1..Len(s) : s[i] = t[i]

\* the order of the operations on cube 2
Cube2Order == <<"read", "with_spectral_unit", "spectral_slab", "spectral_smooth",
                "spectral_interpolate", "convolve_to", "reproject">>

\* cube2vel has a channel at least one channel width beyond each end of
\* cube1vel's spectral axis
VelocityOverlap ==
    /\ AxisMin(cube2vel) <= AxisMin(cube1vel) - Abs(velocity_res_2)
    /\ AxisMax(cube2vel) >= AxisMax(cube1vel) + Abs(velocity_res_2)

AllBeams == (1..(MaxBeam + 1)) \X (1..(MaxBeam + 1))

\* C1: after cell 47, cube2vel_reproj and cube1vel have the same spectral axis
\* (number of channels and velocity of every channel, in the same unit) and
\* the same spatial grid.
C1_IdenticalGrid ==
    Ran("cell47") =>
        /\ cube2vel_reproj.naxis3 = cube1vel.naxis3
        /\ SpectralAxis(cube2vel_reproj) = SpectralAxis(cube1vel)
        /\ cube2vel_reproj.cunit3 = cube1vel.cunit3
        /\ cube2vel_reproj.spatial = cube1vel.spatial

C1_Witness ==
    /\ Ran("cell47")
    /\ cube2.spatial # cube1.spatial
    /\ Abs(cube2.cdelt3) # Abs(cube1.cdelt3)
    /\ cube2vel_reproj.spatial = cube1vel.spatial

\* C2 as stated: after cell 47, cube2vel_reproj has the beam common_beam and
\* the brightness unit of cube1vel, and cube1vel has the beam common_beam.
C2_SameUnitSameBeam ==
    Ran("cell47") =>
        /\ cube2vel_reproj.beam = common_beam
        /\ cube2vel_reproj.bunit = cube1vel.bunit
        /\ cube1vel.beam = common_beam

\* C2 amended: the same, for two input cubes that have the same brightness
\* unit and of which cube 1's beam is at least as large as cube 2's.
C2_SameUnitSameBeamAmended ==
    (Ran("cell47") /\ cube1.bunit = cube2.bunit /\ BeamGeq(cube1.beam, cube2.beam)) =>
        /\ cube2vel_reproj.beam = common_beam
        /\ cube2vel_reproj.bunit = cube1vel.bunit
        /\ cube1vel.beam = common_beam

C2_Witness ==
    /\ pc = "done"
    /\ cube1.bunit = cube2.bunit
    /\ BeamGeq(cube1.beam, cube2.beam)
    /\ cube1.beam # cube2.beam
    /\ cube2vel_reproj.beam = cube1vel.beam

\* C3: when the dask cell has run, cube2daskvel_reproj has the grid, the beam,
\* the unit, the blanked channels and the data (the same calls with the same
\* parameters on the same file) of cube2vel_reproj.
C3_DaskEquivalent ==
    pc = "done" => [cube2daskvel_reproj EXCEPT !.dask = FALSE] = cube2vel_reproj

C3_Witness ==
    /\ pc = "done"
    /\ cube2daskvel_reproj.dask
    /\ ~cube2vel_reproj.dask
    /\ Len(cube2daskvel_reproj.hist) = Len(Cube2Order)

\* C4: every product of cube 2 was made by the operations in the order
\* with_spectral_unit, spectral_slab, spectral_smooth, spectral_interpolate,
\* convolve_to, reproject, the reprojected cube by all of them, and a cube
\* that was spectrally smoothed has a single beam.
C4_StepOrder ==
    /\ \A c \in {cube2vel, cube2vel_cutout, cube2vel_smooth, cube2vel_spectralresample,
                 cube2vel_spatialspectralsmooth, cube2vel_reproj, cube2daskvel_reproj} :
          /\ IsPrefix(OpNames(c), Cube2Order)
          /\ "spectral_smooth" \in Range(OpNames(c)) => ~c.varying
    /\ Ran("cell36") => Len(cube2vel_spectralresample.hist) = 5
    /\ Ran("cell47") => OpNames(cube2vel_reproj) = Cube2Order

C4_Witness ==
    /\ Ran("cell47")
    /\ ~cube2.varying
    /\ OpNames(cube2vel_reproj) = Cube2Order

\* C5: after the buffered slab, for two cubes that overlap in velocity, the
\* cutout has a channel at or below cube1vel's lowest velocity and a channel
\* at or above its highest, and the interpolation blanks no channel.
C5_CutoutBounds ==
    /\ (Ran("cell29") /\ VelocityOverlap) =>
          /\ AxisMin(cube2vel_cutout) <= AxisMin(cube1vel)
          /\ AxisMax(cube2vel_cutout) >= AxisMax(cube1vel)
    /\ (Ran("cell36") /\ VelocityOverlap) => cube2vel_spectralresample.blank = {}

\* C6: when cube 1 has the largest channel width, fwhm_gaussian is a number
\* and fwhm_gaussian^2 + velocity_res_2^2 = velocity_res_1^2, to the
\* resolution of the fixed-point numbers (thousandths of km/s).
C6_Quadrature ==
    (Ran("cell31") /\ Abs(velocity_res_1) >= Abs(velocity_res_2)) =>
        LET f == fwhm_gaussian.milli
            v1sq == velocity_res_1 * velocity_res_1 * 1000000
            v2sq == velocity_res_2 * velocity_res_2 * 1000000
        IN /\ ~fwhm_gaussian.nan
           /\ f * f + v2sq <= v1sq
           /\ (f + 1) * (f + 1) + v2sq > v1sq

C6_Witness ==
    /\ Ran("cell31")
    /\ Abs(velocity_res_1) > Abs(velocity_res_2)
    /\ fwhm_gaussian.milli % 1000 # 0

\* C7: the stddev of the kernel is the sigma of the Gaussian,
\* fwhm_gaussian / sqrt(8 ln 2), counted in channels of cube2vel.
C7_StddevInPixels ==
    Ran("cell32") =>
        spectral_smoothing_kernel.milli =
            (fwhm_gaussian.milli * 1000) \div (FwhmToSigmaMilli * Abs(velocity_res_2))

C9_CommonBeam ==
    /\ Ran("cell43") =>
          /\ BeamGeq(common_beam, cube1vel.beam)
          /\ BeamGeq(common_beam, cube2vel.beam)
          /\ \A b \in AllBeams :
                (BeamGeq(b, cube1vel.beam) /\ BeamGeq(b, cube2vel.beam))
                    => BeamGeq(b, common_beam)
          /\ BeamGeq(cube1vel.beam, cube2vel.beam) => common_beam = cube1vel.beam
    /\ (Ran("cell45") /\ BeamGeq(cube1vel.beam, cube2vel.beam)) =>
          cube2vel_spatialspectralsmooth.beam = cube1vel.beam

C9_Witness ==
    /\ Ran("cell45")
    /\ BeamGeq(cube1vel.beam, cube2vel.beam)
    /\ cube1vel.beam # cube2vel.beam
    /\ cube2vel_spatialspectralsmooth.beam = cube1vel.beam

====
